---- MODULE Spec2Model ----
(***************************************************************************)
(* Model of the matrix processor of AMS (ams/core/matprocessor.py): the    *)
(* value container MParam and the builder MatProcessor, driven by a        *)
(* topology held in the System's device tables.                            *)
(***************************************************************************)
EXTENDS Integers, Sequences, FiniteSets, TLC

(***************************************************************************)
(* Bounds of the model.                                                    *)
(***************************************************************************)
MaxBus == 2
MaxDev == 2
MaxLine == 1
MaxEdits == 1
MaxRated == 2

(***************************************************************************)
(* Floating-point values.  A value is a pair <<n, d>>: the fraction n/d in *)
(* lowest terms when d > 0, +inf = <<1, 0>>, -inf = <<-1, 0>> and          *)
(* nan = <<0, 0>>, the three values numpy produces on a division by zero.  *)
(***************************************************************************)
Abs(i) == IF i < 0 THEN -i ELSE i

Sign(i) == IF i < 0 THEN -1 ELSE IF i > 0 THEN 1 ELSE 0

RECURSIVE Gcd(_, _)
Gcd(a, b) == IF b = 0 THEN a ELSE Gcd(b, a % b)

Norm(n, d) ==
    IF d = 0 THEN <<Sign(n), 0>>
    ELSE LET g == Gcd(Abs(n), Abs(d))
         IN  <<(Sign(d) * n) \div g, Abs(d) \div g>>

Num(i) == <<i, 1>>
Zero == <<0, 1>>
One == <<1, 1>>
Inf == <<1, 0>>
NaN == <<0, 0>>

IsFinite(a) == a[2] > 0
IsInf(a) == a[2] = 0 /\ a[1] # 0
IsZero(a) == a[2] > 0 /\ a[1] = 0

FNeg(a) == <<-a[1], a[2]>>

FAdd(a, b) ==
    IF IsInf(a) /\ IsInf(b) THEN (IF a[1] = b[1] THEN a ELSE NaN)
    ELSE Norm(a[1] * b[2] + b[1] * a[2], a[2] * b[2])

FMul(a, b) == Norm(a[1] * b[1], a[2] * b[2])

FDiv(a, b) ==
    Norm(a[1] * b[2] * (IF b[1] < 0 THEN -1 ELSE 1), a[2] * Abs(b[1]))

(***************************************************************************)
(* numpy and scipy.sparse.  A dense array is [kind |-> "ndarray", shape,   *)
(* a]: a maps each index tuple to its element (shape <<>> is a 0-d array,  *)
(* <<n>> a vector, <<m, n>> a matrix).  A sparse matrix is [kind |->       *)
(* "csr", shape, nz]: nz maps each stored coordinate <<row, col>> to its   *)
(* value.  Indices are 0-based.                                            *)
(***************************************************************************)
Range(s) == {s[k] : k \in DOMAIN s}

RECURSIVE SumDup(_, _, _, _, _)
SumDup(data, row, col, rc, k) ==
    IF k = 0 THEN Zero
    ELSE IF <<row[k], col[k]>> = rc
         THEN (IF \E j \in 1..(k - 1) : <<row[j], col[j]>> = rc
               THEN FAdd(SumDup(data, row, col, rc, k - 1), data[k])
               ELSE data[k])
         ELSE SumDup(data, row, col, rc, k - 1)

\* csr_matrix((data, (row, col)), shape): duplicate coordinates are summed.
c_sparse(data, row, col, shape) ==
    [kind |-> "csr", shape |-> shape,
     nz |-> [rc \in {<<row[k], col[k]>> : k \in DOMAIN data} |->
                SumDup(data, row, col, rc, Len(data))]]

\* spmatrix.T
T(A) ==
    [kind |-> "csr", shape |-> <<A.shape[2], A.shape[1]>>,
     nz |-> [rc \in {<<p[2], p[1]>> : p \in DOMAIN A.nz} |-> A.nz[<<rc[2], rc[1]>>]]]

\* spmatrix.toarray()
toarray(A) ==
    [kind |-> "ndarray", shape |-> A.shape,
     a |-> [rc \in (0..(A.shape[1] - 1)) \X (0..(A.shape[2] - 1)) |->
               IF rc \in DOMAIN A.nz THEN A.nz[rc] ELSE Zero]]

\* np.squeeze of a 2-D array: every axis of length one is removed.
squeeze(out) ==
    LET m == out.shape[1]
        n == out.shape[2]
    IN  IF m = 1 /\ n = 1 THEN [kind |-> "ndarray", shape |-> <<>>, a |-> [i \in {<<>>} |-> out.a[<<0, 0>>]]]
        ELSE IF m = 1 THEN [kind |-> "ndarray", shape |-> <<n>>, a |-> [i \in {<<c>> : c \in 0..(n - 1)} |-> out.a[<<0, i[1]>>]]]
        ELSE IF n = 1 THEN [kind |-> "ndarray", shape |-> <<m>>, a |-> [i \in {<<r>> : r \in 0..(m - 1)} |-> out.a[<<i[1], 0>>]]]
        ELSE out

\* A 1-D ndarray holding the values of the sequence s.
ndarray(s) ==
    [kind |-> "ndarray", shape |-> <<Len(s)>>, a |-> [i \in {<<k>> : k \in 0..(Len(s) - 1)} |-> s[i[1] + 1]]]

RECURSIVE DotStored(_, _, _, _, _)
\* Sum over the inner indices l < k stored in both row i of A and column j of B.
DotStored(A, B, i, j, k) ==
    IF k = 0 THEN Zero
    ELSE LET l == k - 1
             rest == DotStored(A, B, i, j, l)
         IN  IF <<i, l>> \in DOMAIN A.nz /\ <<l, j>> \in DOMAIN B.nz
             THEN FAdd(rest, FMul(A.nz[<<i, l>>], B.nz[<<l, j>>]))
             ELSE rest

\* spmatrix * spmatrix: only stored entries take part in the product.
matmul(A, B) ==
    [kind |-> "csr", shape |-> <<A.shape[1], B.shape[2]>>,
     nz |-> [rc \in {<<pq[1][1], pq[2][2]>> :
                       pq \in {z \in (DOMAIN A.nz) \X (DOMAIN B.nz) : z[1][2] = z[2][1]}} |->
                DotStored(A, B, rc[1], rc[2], A.shape[2])]]

RECURSIVE DotVec(_, _, _, _)
DotVec(A, x, i, k) ==
    IF k = 0 THEN Zero
    ELSE LET l == k - 1
             rest == DotVec(A, x, i, l)
         IN  IF <<i, l>> \in DOMAIN A.nz
             THEN FAdd(rest, FMul(A.nz[<<i, l>>], x.a[<<l>>]))
             ELSE rest

\* spmatrix * 1-D ndarray: a 1-D ndarray.
matvec(A, x) ==
    [kind |-> "ndarray", shape |-> <<A.shape[1]>>,
     a |-> [i \in {<<r>> : r \in 0..(A.shape[1] - 1)} |-> DotVec(A, x, i[1], A.shape[2])]]


(***************************************************************************)
(* The device tables of the System.  Bus is the sequence of bus idx; PV,   *)
(* Slack, PQ and Shunt are sequences of [idx, bus, u]; Line is a sequence  *)
(* of [idx, bus1, bus2, u, x, tap, phi].  The uid of a device is its       *)
(* 0-based position in its table.                                          *)
(***************************************************************************)
VARIABLES system, initialized, Cg, Cl, Csh, Cft, CftT, Bbus, Bf, Pbusinj, Pfinj,
          PTDF, raised, edits

vars == <<system, initialized, Cg, Cl, Csh, Cft, CftT, Bbus, Bf, Pbusinj, Pfinj,
          PTDF, raised, edits>>

\* The unset value of an MParam (v=None).
None == [kind |-> "None"]

\* The outcome of a step that raised: a bus idx that is not in the Bus table.
KeyError == [kind |-> "KeyError"]

\* The idx of a table, in table order (Model.idx.v).
idx_v(tbl) == [k \in DOMAIN tbl |-> tbl[k].idx]

HasIdx(idxs, x) == \E k \in DOMAIN idxs : idxs[k] = x

\* Model.idx2uid: the position of idx x; a KeyError when x is not in the table.
idx2uid(idxs, x) == (CHOOSE k \in DOMAIN idxs : idxs[k] = x) - 1

\* np.flatnonzero: the 0-based positions of the nonzero elements, ascending.
flatnonzero(s) ==
    LET F[k \in 0..Len(s)] ==
            IF k = 0 THEN <<>>
            ELSE IF ~IsZero(s[k]) THEN Append(F[k - 1], k - 1) ELSE F[k - 1]
    IN  F[Len(s)]

RECURSIVE sorted(_)
sorted(s) ==
    IF s = <<>> THEN <<>>
    ELSE LET m == CHOOSE x \in Range(s) : \A y \in Range(s) : x <= y
             k == CHOOSE j \in DOMAIN s : s[j] = m
         IN  <<m>> \o sorted(SubSeq(s, 1, k - 1) \o SubSeq(s, k + 1, Len(s)))

\* get_idx without the sort: the idx in the order of the PV and Slack tables.
get_idx_unsorted(sys) == idx_v(sys.PV) \o idx_v(sys.Slack)

\* GroupBase.get_idx of StaticGen: the idx of its models PV and Slack, sorted.
get_idx(sys) == sorted(idx_v(sys.PV) \o idx_v(sys.Slack))

\* GroupBase.get: the record of the device of the group with idx x.
StaticGen_rec(sys, x) == CHOOSE g \in Range(sys.PV \o sys.Slack) : g.idx = x

\* Model.get: the record of the device of the table with idx x.
rec(tbl, x) == tbl[idx2uid(idx_v(tbl), x) + 1]

\* list.index
index(s, x) == (CHOOSE k \in DOMAIN s : s[k] = x /\ \A j \in 1..(k - 1) : s[j] # x) - 1

ones(n) == [k \in 1..n |-> One]

\* [f(x) for x in s]
Map(s, f(_)) == [k \in DOMAIN s |-> f(s[k])]

(***************************************************************************)
(* MParam.v, the dense view of a value container.                          *)
(***************************************************************************)
v(_v) ==
    IF _v.kind = "csr"
    THEN LET out == toarray(_v)
         IN  IF out.shape[1] = 1 THEN squeeze(out) ELSE out
    ELSE _v

(***************************************************************************)
(* The values the build steps compute from the device tables; KeyError     *)
(* when a bus idx the step resolves is not in the Bus table.               *)
(***************************************************************************)
\* build_cg without the in-service filter: every generator gets an entry.
Cg_v_unfiltered(sys) ==
    LET nb == Len(sys.Bus)
        ng == Len(sys.PV) + Len(sys.Slack)
        idx_gen == get_idx(sys)
        gen_bus == [k \in DOMAIN idx_gen |-> StaticGen_rec(sys, idx_gen[k]).bus]
    IN  IF \E k \in DOMAIN gen_bus : ~HasIdx(sys.Bus, gen_bus[k]) THEN KeyError
        ELSE LET row == [k \in DOMAIN gen_bus |-> idx2uid(sys.Bus, gen_bus[k])]
                 col == [k \in DOMAIN idx_gen |-> index(idx_gen, idx_gen[k])]
             IN  c_sparse(ones(Len(idx_gen)), row, col, <<nb, ng>>)

\* MatProcessor.build_cg
Cg_v(sys) ==
    LET nb == Len(sys.Bus)
        ng == Len(sys.PV) + Len(sys.Slack)
        idx_gen == get_idx(sys)
        u_gen == [k \in DOMAIN idx_gen |-> StaticGen_rec(sys, idx_gen[k]).u]
        on_gen == flatnonzero(u_gen)
        on_gen_idx == [k \in DOMAIN on_gen |-> idx_gen[on_gen[k] + 1]]
        on_gen_bus == [k \in DOMAIN on_gen_idx |-> StaticGen_rec(sys, on_gen_idx[k]).bus]
    IN  IF \E k \in DOMAIN on_gen_bus : ~HasIdx(sys.Bus, on_gen_bus[k]) THEN KeyError
        ELSE LET row == [k \in DOMAIN on_gen_bus |-> idx2uid(sys.Bus, on_gen_bus[k])]
                 col == [k \in DOMAIN on_gen_idx |-> index(idx_gen, on_gen_idx[k])]
             IN  c_sparse(ones(Len(on_gen_idx)), row, col, <<nb, ng>>)

\* The algorithm shared by build_cl (tbl = PQ) and build_csh (tbl = Shunt).
C_v(sys, tbl) ==
    LET nb == Len(sys.Bus)
        n == Len(tbl)
        idx_dev == idx_v(tbl)
        u_dev == [k \in DOMAIN idx_dev |-> rec(tbl, idx_dev[k]).u]
        on_dev == flatnonzero(u_dev)
        on_dev_idx == [k \in DOMAIN on_dev |-> idx_dev[on_dev[k] + 1]]
        on_dev_bus == [k \in DOMAIN on_dev_idx |-> rec(tbl, on_dev_idx[k]).bus]
    IN  IF \E k \in DOMAIN on_dev_bus : ~HasIdx(sys.Bus, on_dev_bus[k]) THEN KeyError
        ELSE LET row == [k \in DOMAIN on_dev_bus |-> idx2uid(sys.Bus, on_dev_bus[k])]
                 col == [k \in DOMAIN on_dev_idx |-> idx2uid(idx_dev, on_dev_idx[k])]
             IN  c_sparse(ones(Len(on_dev_idx)), row, col, <<nb, n>>)

\* MatProcessor.build_cl
Cl_v(sys) == C_v(sys, sys.PQ)

\* MatProcessor.build_csh
Csh_v(sys) == C_v(sys, sys.Shunt)

\* build_cft with the signs exchanged: -1 at the from-bus, +1 at the to-bus.
Cft_v_swapped(sys) ==
    LET nb == Len(sys.Bus)
        nl == Len(sys.Line)
        idx_line == idx_v(sys.Line)
        u_line == [k \in DOMAIN idx_line |-> rec(sys.Line, idx_line[k]).u]
        on_line == flatnonzero(u_line)
        on_line_idx == [k \in DOMAIN on_line |-> idx_line[on_line[k] + 1]]
        on_line_bus1 == [k \in DOMAIN on_line_idx |-> rec(sys.Line, on_line_idx[k]).bus1]
        on_line_bus2 == [k \in DOMAIN on_line_idx |-> rec(sys.Line, on_line_idx[k]).bus2]
        data_line == [k \in 1..(2 * Len(on_line_idx)) |->
                         IF k <= Len(on_line_idx) THEN FNeg(One) ELSE One]
        buses == on_line_bus1 \o on_line_bus2
        lines == on_line_idx \o on_line_idx
    IN  IF \E k \in DOMAIN buses : ~HasIdx(sys.Bus, buses[k]) THEN KeyError
        ELSE LET row_line == [k \in DOMAIN buses |-> idx2uid(sys.Bus, buses[k])]
                 col_line == [k \in DOMAIN lines |-> idx2uid(idx_line, lines[k])]
             IN  c_sparse(data_line, row_line, col_line, <<nb, nl>>)

\* build_cft without the sign of the to-bus: +1 at both buses of a line.
Cft_v_unsigned(sys) ==
    LET nb == Len(sys.Bus)
        nl == Len(sys.Line)
        idx_line == idx_v(sys.Line)
        u_line == [k \in DOMAIN idx_line |-> rec(sys.Line, idx_line[k]).u]
        on_line == flatnonzero(u_line)
        on_line_idx == [k \in DOMAIN on_line |-> idx_line[on_line[k] + 1]]
        on_line_bus1 == [k \in DOMAIN on_line_idx |-> rec(sys.Line, on_line_idx[k]).bus1]
        on_line_bus2 == [k \in DOMAIN on_line_idx |-> rec(sys.Line, on_line_idx[k]).bus2]
        data_line == ones(2 * Len(on_line_idx))
        buses == on_line_bus1 \o on_line_bus2
        lines == on_line_idx \o on_line_idx
    IN  IF \E k \in DOMAIN buses : ~HasIdx(sys.Bus, buses[k]) THEN KeyError
        ELSE LET row_line == [k \in DOMAIN buses |-> idx2uid(sys.Bus, buses[k])]
                 col_line == [k \in DOMAIN lines |-> idx2uid(idx_line, lines[k])]
             IN  c_sparse(data_line, row_line, col_line, <<nb, nl>>)

\* MatProcessor.build_cft: the value stored in Cft.
Cft_v(sys) ==
    LET nb == Len(sys.Bus)
        nl == Len(sys.Line)
        idx_line == idx_v(sys.Line)
        u_line == [k \in DOMAIN idx_line |-> rec(sys.Line, idx_line[k]).u]
        on_line == flatnonzero(u_line)
        on_line_idx == [k \in DOMAIN on_line |-> idx_line[on_line[k] + 1]]
        on_line_bus1 == [k \in DOMAIN on_line_idx |-> rec(sys.Line, on_line_idx[k]).bus1]
        on_line_bus2 == [k \in DOMAIN on_line_idx |-> rec(sys.Line, on_line_idx[k]).bus2]
        data_line == [k \in 1..(2 * Len(on_line_idx)) |->
                         IF k <= Len(on_line_idx) THEN One ELSE FNeg(One)]
        buses == on_line_bus1 \o on_line_bus2
        lines == on_line_idx \o on_line_idx
    IN  IF \E k \in DOMAIN buses : ~HasIdx(sys.Bus, buses[k]) THEN KeyError
        ELSE LET row_line == [k \in DOMAIN buses |-> idx2uid(sys.Bus, buses[k])]
                 col_line == [k \in DOMAIN lines |-> idx2uid(idx_line, lines[k])]
             IN  c_sparse(data_line, row_line, col_line, <<nb, nl>>)

\* build_cft storing the matrix itself as its transpose.
CftT_v_same(cft) == cft

\* MatProcessor.build_cft: the value stored in CftT.
CftT_v(cft) == T(cft)

\* _makeBdc dividing by the stored tap, a stored 0 included.
b_v_stored_tap(sys) ==
    LET nl == Len(sys.Line)
        idx_line == idx_v(sys.Line)
        x == [k \in DOMAIN idx_line |-> rec(sys.Line, idx_line[k]).x]
        u_line == [k \in DOMAIN idx_line |-> rec(sys.Line, idx_line[k]).u]
        b0 == [k \in 1..nl |-> FDiv(u_line[k], x[k])]
        tap0 == [k \in DOMAIN idx_line |-> rec(sys.Line, idx_line[k]).tap]
    IN  [k \in 1..nl |-> FDiv(b0[k], tap0[k])]

\* _makeBdc taking every line as in service: b = (1 / x) / tap.
b_v_ignoring_u(sys) ==
    LET nl == Len(sys.Line)
        idx_line == idx_v(sys.Line)
        x == [k \in DOMAIN idx_line |-> rec(sys.Line, idx_line[k]).x]
        b0 == [k \in 1..nl |-> FDiv(One, x[k])]
        tap0 == [k \in DOMAIN idx_line |-> rec(sys.Line, idx_line[k]).tap]
        i == Range(flatnonzero(tap0))
        tap == [k \in 1..nl |-> IF (k - 1) \in i THEN tap0[k] ELSE One]
    IN  [k \in 1..nl |-> FDiv(b0[k], tap[k])]

\* _makeBdc without the tap adjustment: b = u / x.
b_v_untapped(sys) ==
    LET nl == Len(sys.Line)
        idx_line == idx_v(sys.Line)
        x == [k \in DOMAIN idx_line |-> rec(sys.Line, idx_line[k]).x]
        u_line == [k \in DOMAIN idx_line |-> rec(sys.Line, idx_line[k]).u]
    IN  [k \in 1..nl |-> FDiv(u_line[k], x[k])]

\* MatProcessor._makeBdc: the adjusted series susceptance b of every line.
b_v(sys) ==
    LET nl == Len(sys.Line)
        idx_line == idx_v(sys.Line)
        x == [k \in DOMAIN idx_line |-> rec(sys.Line, idx_line[k]).x]
        u_line == [k \in DOMAIN idx_line |-> rec(sys.Line, idx_line[k]).u]
        b0 == [k \in 1..nl |-> FDiv(u_line[k], x[k])]
        tap0 == [k \in DOMAIN idx_line |-> rec(sys.Line, idx_line[k]).tap]
        i == Range(flatnonzero(tap0))
        tap == [k \in 1..nl |-> IF (k - 1) \in i THEN tap0[k] ELSE One]
    IN  [k \in 1..nl |-> FDiv(b0[k], tap[k])]

\* The incidence of _makeBdc without the signs: +1 at both buses of a line.
Bdc_Cft_unsigned(nl, nb, f, t) ==
    LET ir == [k \in 1..(2 * nl) |-> IF k <= nl THEN k - 1 ELSE k - nl - 1]
    IN  c_sparse(ones(nl) \o ones(nl), ir, f \o t, <<nl, nb>>)

\* MatProcessor._makeBdc: the signed incidence built inside the step.
Bdc_Cft(nl, nb, f, t) ==
    LET ir == [k \in 1..(2 * nl) |-> IF k <= nl THEN k - 1 ELSE k - nl - 1]
    IN  c_sparse(ones(nl) \o Map(ones(nl), FNeg), ir, f \o t, <<nl, nb>>)

\* Pfinj without the sign change: b * phi.
Pfinj_v_positive(b, phi) == ndarray([k \in DOMAIN b |-> FMul(b[k], phi[k])])

\* MatProcessor._makeBdc: Pfinj = b * (-phi), element by element.
Pfinj_v(b, phi) == ndarray([k \in DOMAIN b |-> FMul(b[k], FNeg(phi[k]))])

\* The incidence matrix _makeBdc builds for itself (line 205) from the line
\* table of a system whose lines all resolve: one row per line, in service or
\* not.
Bdc_Cft_of(sys) ==
    LET nb == Len(sys.Bus)
        nl == Len(sys.Line)
        idx_line == idx_v(sys.Line)
        f == [k \in 1..nl |-> idx2uid(sys.Bus, rec(sys.Line, idx_line[k]).bus1)]
        t == [k \in 1..nl |-> idx2uid(sys.Bus, rec(sys.Line, idx_line[k]).bus2)]
    IN  Bdc_Cft(nl, nb, f, t)


\* MatProcessor._makeBdc: [Bbus, Bf, Pbusinj, Pfinj], or KeyError.
Bdc_v(sys) ==
    LET nb == Len(sys.Bus)
        nl == Len(sys.Line)
        idx_line == idx_v(sys.Line)
        b == b_v(sys)
        bus1 == [k \in DOMAIN idx_line |-> rec(sys.Line, idx_line[k]).bus1]
        bus2 == [k \in DOMAIN idx_line |-> rec(sys.Line, idx_line[k]).bus2]
    IN  IF \E k \in 1..nl : ~HasIdx(sys.Bus, bus1[k]) \/ ~HasIdx(sys.Bus, bus2[k])
        THEN KeyError
        ELSE LET f == [k \in 1..nl |-> idx2uid(sys.Bus, bus1[k])]
                 t == [k \in 1..nl |-> idx2uid(sys.Bus, bus2[k])]
                 ir == [k \in 1..(2 * nl) |-> IF k <= nl THEN k - 1 ELSE k - nl - 1]
                 Bf_ == c_sparse(b \o Map(b, FNeg), ir, f \o t, <<nl, nb>>)
                 Cft_ == Bdc_Cft(nl, nb, f, t)
                 Bbus_ == matmul(T(Cft_), Bf_)
                 phi == [k \in DOMAIN idx_line |-> rec(sys.Line, idx_line[k]).phi]
                 Pfinj_ == Pfinj_v(b, phi)
                 Pbusinj_ == matvec(T(Cft_), Pfinj_)
             IN  [kind |-> "ok", Bbus |-> Bbus_, Bf |-> Bf_,
                  Pbusinj |-> Pbusinj_, Pfinj |-> Pfinj_]

(***************************************************************************)
(* The topologies the System is loaded with.                               *)
(***************************************************************************)
BusRefs == 1..MaxBus
UValues == {Zero, One}

\* The electrical parameters <<x, tap, phi>> the lines are loaded with: a plain
\* line with tap stored as 0 and as 1, a phase-shifting transformer, a
\* zero-reactance line.
LineKinds ==
    {<<<<1, 10>>, Zero, Zero>>, <<<<1, 10>>, One, Zero>>, <<<<1, 5>>, Num(2), One>>,
     <<Zero, One, One>>}

\* The tables of n devices with idx 1..n in table order.
DevTables(n) ==
    {[k \in 1..n |-> [idx |-> k, bus |-> d[k][1], u |-> d[k][2]]] :
        d \in [1..n -> BusRefs \X UValues]}

LineTables(n) ==
    {[k \in 1..n |-> [idx |-> k, bus1 |-> d[k][1], bus2 |-> d[k][2], u |-> d[k][3],
                       x |-> d[k][4][1], tap |-> d[k][4][2], phi |-> d[k][4][3]]] :
        d \in [1..n -> BusRefs \X BusRefs \X UValues \X LineKinds]}

\* The subsequence of s whose idx satisfy keep.
SelectIdx(s, keep(_)) ==
    LET F[k \in 0..Len(s)] ==
            IF k = 0 THEN <<>>
            ELSE IF keep(s[k].idx) THEN Append(F[k - 1], s[k]) ELSE F[k - 1]
    IN  F[Len(s)]

\* mpc2system: the generators of the gen table whose idx is in sw become
\* Slack devices, the others PV devices; the idx is the row number.
Systems(nbs, ngs, nls, nshs, nlines) ==
    {[Bus |-> [k \in 1..nb |-> k],
      PV |-> SelectIdx(g[1], LAMBDA i : i \notin g[2]),
      Slack |-> SelectIdx(g[1], LAMBDA i : i \in g[2]),
      PQ |-> pq, Shunt |-> sh, Line |-> ln] :
        nb \in nbs,
        g \in UNION {DevTables(n) \X SUBSET (1..n) : n \in ngs},
        pq \in UNION {DevTables(n) : n \in nls},
        sh \in UNION {DevTables(n) : n \in nshs},
        ln \in UNION {LineTables(n) : n \in nlines}}

(***************************************************************************)
(* MatProcessor.__init__ and the build steps.                              *)
(***************************************************************************)
Fresh ==
    /\ initialized = FALSE
    /\ Cg = None /\ Cl = None /\ Csh = None /\ Cft = None /\ CftT = None
    /\ Bbus = None /\ Bf = None /\ Pbusinj = None /\ Pfinj = None /\ PTDF = None
    /\ raised = "None"
    /\ edits = 0

Raised(r) == r.kind = "KeyError"

\* The exception a call ended with.
Outcome(r) == IF Raised(r) THEN "KeyError" ELSE "None"

build_cg ==
    \E r \in {Cg_v(system)} :
        /\ Cg' = IF Raised(r) THEN Cg ELSE r
        /\ raised' = Outcome(r)
        /\ UNCHANGED <<system, initialized, Cl, Csh, Cft, CftT, Bbus, Bf, Pbusinj,
                       Pfinj, PTDF, edits>>

\* build_cl that also drops the stored line incidence.
build_cl_clobbering ==
    \E r \in {Cl_v(system)} :
        /\ Cl' = IF Raised(r) THEN Cl ELSE r
        /\ Cft' = None
        /\ raised' = Outcome(r)
        /\ UNCHANGED <<system, initialized, Cg, Csh, CftT, Bbus, Bf, Pbusinj,
                       Pfinj, PTDF, edits>>

build_cl ==
    \E r \in {Cl_v(system)} :
        /\ Cl' = IF Raised(r) THEN Cl ELSE r
        /\ raised' = Outcome(r)
        /\ UNCHANGED <<system, initialized, Cg, Csh, Cft, CftT, Bbus, Bf, Pbusinj,
                       Pfinj, PTDF, edits>>

build_csh ==
    \E r \in {Csh_v(system)} :
        /\ Csh' = IF Raised(r) THEN Csh ELSE r
        /\ raised' = Outcome(r)
        /\ UNCHANGED <<system, initialized, Cg, Cl, Cft, CftT, Bbus, Bf, Pbusinj,
                       Pfinj, PTDF, edits>>

build_cft ==
    \E r \in {Cft_v(system)} :
        /\ Cft' = IF Raised(r) THEN Cft ELSE r
        /\ CftT' = IF Raised(r) THEN CftT ELSE CftT_v(r)
        /\ raised' = Outcome(r)
        /\ UNCHANGED <<system, initialized, Cg, Cl, Csh, Bbus, Bf, Pbusinj,
                       Pfinj, PTDF, edits>>

\* _makeBdc storing Pfinj before the buses of the lines are resolved.
_makeBdc_partial ==
    \E r \in {Bdc_v(system)} :
        /\ Bbus' = IF Raised(r) THEN Bbus ELSE r.Bbus
        /\ Bf' = IF Raised(r) THEN Bf ELSE r.Bf
        /\ Pbusinj' = IF Raised(r) THEN Pbusinj ELSE r.Pbusinj
        /\ Pfinj' = Pfinj_v(b_v(system),
                            [k \in DOMAIN system.Line |-> system.Line[k].phi])
        /\ raised' = Outcome(r)
        /\ UNCHANGED <<system, initialized, Cg, Cl, Csh, Cft, CftT, PTDF, edits>>

\* _makeBdc taking the incidence from the stored Cft (no line when unset).
_makeBdc_stored_Cft ==
    \E r \in {Bdc_v(system)} :
    \E C \in {IF Cft = None
               THEN c_sparse(<<>>, <<>>, <<>>, <<Len(system.Bus), Len(system.Line)>>)
               ELSE Cft} :
        /\ Bbus' = IF Raised(r) THEN Bbus ELSE matmul(C, r.Bf)
        /\ Bf' = IF Raised(r) THEN Bf ELSE r.Bf
        /\ Pbusinj' = IF Raised(r) THEN Pbusinj ELSE matvec(C, r.Pfinj)
        /\ Pfinj' = IF Raised(r) THEN Pfinj ELSE r.Pfinj
        /\ raised' = Outcome(r)
        /\ UNCHANGED <<system, initialized, Cg, Cl, Csh, Cft, CftT, PTDF, edits>>

_makeBdc ==
    \E r \in {Bdc_v(system)} :
        /\ Bbus' = IF Raised(r) THEN Bbus ELSE r.Bbus
        /\ Bf' = IF Raised(r) THEN Bf ELSE r.Bf
        /\ Pbusinj' = IF Raised(r) THEN Pbusinj ELSE r.Pbusinj
        /\ Pfinj' = IF Raised(r) THEN Pfinj ELSE r.Pfinj
        /\ raised' = Outcome(r)
        /\ UNCHANGED <<system, initialized, Cg, Cl, Csh, Cft, CftT, PTDF, edits>>

\* The flag following the outcome of the last call: cleared by a failing call.
\* The flag set by every call, the raising ones as well.
built_flag_always(ok, old) == TRUE

built_flag_last(ok, old) == ok

\* MatProcessor.build: the flag after a call whose five steps all completed
\* (ok) or that a raising step ended.
built_flag(ok, old) == IF ok THEN TRUE ELSE old

\* build() running the load incidence step before the generator incidence step.
build_reordered ==
    \E r1 \in {Cl_v(system)}, r2 \in {Cg_v(system)}, r3 \in {Csh_v(system)},
       r4 \in {Cft_v(system)}, r5 \in {Bdc_v(system)} :
    LET ok1 == ~Raised(r1)
        ok2 == ok1 /\ ~Raised(r2)
        ok3 == ok2 /\ ~Raised(r3)
        ok4 == ok3 /\ ~Raised(r4)
        ok5 == ok4 /\ ~Raised(r5)
    IN  /\ Cl' = IF ok1 THEN r1 ELSE Cl
        /\ Cg' = IF ok2 THEN r2 ELSE Cg
        /\ Csh' = IF ok3 THEN r3 ELSE Csh
        /\ Cft' = IF ok4 THEN r4 ELSE Cft
        /\ CftT' = IF ok4 THEN CftT_v(r4) ELSE CftT
        /\ Bbus' = IF ok5 THEN r5.Bbus ELSE Bbus
        /\ Bf' = IF ok5 THEN r5.Bf ELSE Bf
        /\ Pbusinj' = IF ok5 THEN r5.Pbusinj ELSE Pbusinj
        /\ Pfinj' = IF ok5 THEN r5.Pfinj ELSE Pfinj
        /\ initialized' = built_flag(ok5, initialized)
        /\ raised' = IF ok5 THEN "None" ELSE "KeyError"
        /\ UNCHANGED <<system, PTDF, edits>>

\* The sum of the stored matrix and the new one when their shapes agree.
accumulate(old, new) ==
    IF old.kind = "csr" /\ old.shape = new.shape
    THEN [new EXCEPT !.nz =
             [ij \in DOMAIN old.nz \cup DOMAIN new.nz |->
                 FAdd(IF ij \in DOMAIN old.nz THEN old.nz[ij] ELSE Zero,
                      IF ij \in DOMAIN new.nz THEN new.nz[ij] ELSE Zero)]]
    ELSE new

\* build() adding the new generator incidence to the stored one.
build_accumulating ==
    \E r1 \in {Cg_v(system)}, r2 \in {Cl_v(system)}, r3 \in {Csh_v(system)},
       r4 \in {Cft_v(system)}, r5 \in {Bdc_v(system)} :
    LET ok1 == ~Raised(r1)
        ok2 == ok1 /\ ~Raised(r2)
        ok3 == ok2 /\ ~Raised(r3)
        ok4 == ok3 /\ ~Raised(r4)
        ok5 == ok4 /\ ~Raised(r5)
    IN  /\ Cg' = IF ok1 THEN accumulate(Cg, r1) ELSE Cg
        /\ Cl' = IF ok2 THEN r2 ELSE Cl
        /\ Csh' = IF ok3 THEN r3 ELSE Csh
        /\ Cft' = IF ok4 THEN r4 ELSE Cft
        /\ CftT' = IF ok4 THEN CftT_v(r4) ELSE CftT
        /\ Bbus' = IF ok5 THEN r5.Bbus ELSE Bbus
        /\ Bf' = IF ok5 THEN r5.Bf ELSE Bf
        /\ Pbusinj' = IF ok5 THEN r5.Pbusinj ELSE Pbusinj
        /\ Pfinj' = IF ok5 THEN r5.Pfinj ELSE Pfinj
        /\ initialized' = built_flag(ok5, initialized)
        /\ raised' = IF ok5 THEN "None" ELSE "KeyError"
        /\ UNCHANGED <<system, PTDF, edits>>

\* build() keeping a generator incidence and line incidence already stored.
build_cached ==
    \E r1 \in {Cg_v(system)}, r2 \in {Cl_v(system)}, r3 \in {Csh_v(system)},
       r4 \in {Cft_v(system)}, r5 \in {Bdc_v(system)} :
    LET ok1 == ~Raised(r1)
        ok2 == ok1 /\ ~Raised(r2)
        ok3 == ok2 /\ ~Raised(r3)
        ok4 == ok3 /\ ~Raised(r4)
        ok5 == ok4 /\ ~Raised(r5)
    IN  /\ Cg' = IF ok1 /\ Cg = None THEN r1 ELSE Cg
        /\ Cl' = IF ok2 THEN r2 ELSE Cl
        /\ Csh' = IF ok3 THEN r3 ELSE Csh
        /\ Cft' = IF ok4 /\ Cft = None THEN r4 ELSE Cft
        /\ CftT' = IF ok4 /\ Cft = None THEN CftT_v(r4) ELSE CftT
        /\ Bbus' = IF ok5 THEN r5.Bbus ELSE Bbus
        /\ Bf' = IF ok5 THEN r5.Bf ELSE Bf
        /\ Pbusinj' = IF ok5 THEN r5.Pbusinj ELSE Pbusinj
        /\ Pfinj' = IF ok5 THEN r5.Pfinj ELSE Pfinj
        /\ initialized' = built_flag(ok5, initialized)
        /\ raised' = IF ok5 THEN "None" ELSE "KeyError"
        /\ UNCHANGED <<system, PTDF, edits>>

\* MatProcessor.build: the five steps in order; the first step that raises
\* ends the call, the steps before it have stored their values.
build ==
    \E r1 \in {Cg_v(system)}, r2 \in {Cl_v(system)}, r3 \in {Csh_v(system)},
       r4 \in {Cft_v(system)}, r5 \in {Bdc_v(system)} :
    LET ok1 == ~Raised(r1)
        ok2 == ok1 /\ ~Raised(r2)
        ok3 == ok2 /\ ~Raised(r3)
        ok4 == ok3 /\ ~Raised(r4)
        ok5 == ok4 /\ ~Raised(r5)
    IN  /\ Cg' = IF ok1 THEN r1 ELSE Cg
        /\ Cl' = IF ok2 THEN r2 ELSE Cl
        /\ Csh' = IF ok3 THEN r3 ELSE Csh
        /\ Cft' = IF ok4 THEN r4 ELSE Cft
        /\ CftT' = IF ok4 THEN CftT_v(r4) ELSE CftT
        /\ Bbus' = IF ok5 THEN r5.Bbus ELSE Bbus
        /\ Bf' = IF ok5 THEN r5.Bf ELSE Bf
        /\ Pbusinj' = IF ok5 THEN r5.Pbusinj ELSE Pbusinj
        /\ Pfinj' = IF ok5 THEN r5.Pfinj ELSE Pfinj
        /\ initialized' = built_flag(ok5, initialized)
        /\ raised' = IF ok5 THEN "None" ELSE "KeyError"
        /\ UNCHANGED <<system, PTDF, edits>>

(***************************************************************************)
(* Changes of the topology between calls (Model.alter on one field).       *)
(***************************************************************************)
Tables == {"PV", "Slack", "PQ", "Shunt", "Line"}

alter(tbl, k, field, value) ==
    /\ edits < MaxEdits
    /\ system[tbl][k][field] # value
    /\ system' = [system EXCEPT ![tbl][k][field] = value]
    /\ edits' = edits + 1
    /\ UNCHANGED <<initialized, Cg, Cl, Csh, Cft, CftT, Bbus, Bf, Pbusinj, Pfinj,
                   PTDF, raised>>

alter_u ==
    \E tbl \in Tables : \E k \in DOMAIN system[tbl] : \E value \in UValues :
        alter(tbl, k, "u", value)

alter_bus ==
    \E tbl \in Tables \ {"Line"} : \E k \in DOMAIN system[tbl] : \E value \in BusRefs :
        alter(tbl, k, "bus", value)

alter_line ==
    \E k \in DOMAIN system.Line :
        \/ \E value \in BusRefs : alter("Line", k, "bus1", value)
        \/ \E value \in BusRefs : alter("Line", k, "bus2", value)

(***************************************************************************)
(* Spec: the builder of a loaded case, under every sequence of build(),    *)
(* individual build steps and changes of the topology.                     *)
(***************************************************************************)
\* A case of nb buses with MaxDev generators, one load, one shunt and MaxLine
\* lines, every device in service and every bus reference valid; the first
\* generator is the slack generator.
Case(nb) ==
    LET at(k) == ((k - 1) % nb) + 1
        gen == [k \in 1..MaxDev |-> [idx |-> k, bus |-> at(k), u |-> One]]
    IN  [Bus |-> [k \in 1..nb |-> k],
         PV |-> SelectIdx(gen, LAMBDA i : i # 1),
         Slack |-> SelectIdx(gen, LAMBDA i : i = 1),
         PQ |-> <<[idx |-> 1, bus |-> nb, u |-> One]>>,
         Shunt |-> <<[idx |-> 1, bus |-> 1, u |-> One]>>,
         Line |-> [k \in 1..MaxLine |->
                      [idx |-> k, bus1 |-> at(k), bus2 |-> at(k + 1), u |-> One,
                       x |-> <<1, 10>>, tap |-> Zero, phi |-> Zero]]]

Init == system \in {Case(nb) : nb \in 1..MaxBus} /\ Fresh

Next ==
    \/ build \/ build_cg \/ build_cl \/ build_csh \/ build_cft \/ _makeBdc
    \/ alter_u \/ alter_bus \/ alter_line

Spec == Init /\ [][Next]_vars

(***************************************************************************)
(* SpecInc: the generator, load and shunt incidence steps on every system  *)
(* whose generator, load or shunt table is populated.                      *)
(***************************************************************************)
InitInc ==
    /\ system \in Systems(1..MaxBus, 0..MaxDev, {0}, {0}, {0})
                    \cup Systems(1..MaxBus, {0}, 0..MaxDev, {0}, {0})
                    \cup Systems(1..MaxBus, {0}, {0}, 0..MaxDev, {0})
    /\ Fresh

NextInc == build \/ build_cg \/ build_cl \/ build_csh

SpecInc == InitInc /\ [][NextInc]_vars

(***************************************************************************)
(* SpecLine: the line incidence and bus susceptance steps on every system  *)
(* whose line table is populated.                                          *)
(***************************************************************************)
InitLine == system \in Systems(1..MaxBus, {0}, {0}, {0}, 0..MaxLine) /\ Fresh

NextLine == build \/ build_cft \/ _makeBdc

SpecLine == InitLine /\ [][NextLine]_vars

(***************************************************************************)
(* SpecRebuild: build() on a builder whose system is replaced between the  *)
(* calls by a case of other bus, generator and line counts.                *)
(***************************************************************************)
\* A case of nb buses, ng generators and nl lines with one load and one shunt,
\* every device in service and every bus reference valid.
CaseOf(nb, ng, nl) ==
    LET at(k) == ((k - 1) % nb) + 1
        gen == [k \in 1..ng |-> [idx |-> k, bus |-> at(k), u |-> One]]
    IN  [Bus |-> [k \in 1..nb |-> k],
         PV |-> SelectIdx(gen, LAMBDA i : i # 1),
         Slack |-> SelectIdx(gen, LAMBDA i : i = 1),
         PQ |-> <<[idx |-> 1, bus |-> nb, u |-> One]>>,
         Shunt |-> <<[idx |-> 1, bus |-> 1, u |-> One]>>,
         Line |-> [k \in 1..nl |->
                      [idx |-> k, bus1 |-> at(k), bus2 |-> at(k + 1), u |-> One,
                       x |-> <<1, 5 * k>>, tap |-> Zero, phi |-> Num(k - 1)]]]

Cases == {CaseOf(nb, ng, nl) : nb \in 1..MaxBus, ng \in 0..MaxDev, nl \in 0..MaxLine}

\* The builder reads self.system anew in every step: the system it is bound to
\* is replaced by another case.
replace_system ==
    /\ system' \in Cases \ {system}
    /\ UNCHANGED <<initialized, Cg, Cl, Csh, Cft, CftT, Bbus, Bf, Pbusinj, Pfinj,
                   PTDF, raised, edits>>

InitRebuild == system \in Cases /\ Fresh

NextRebuild == build \/ replace_system

SpecRebuild == InitRebuild /\ [][NextRebuild]_vars

(***************************************************************************)
(* SpecDisable: build() before and after the in-service flag of a device   *)
(* is changed, on every system whose generator, load or shunt table is     *)
(* populated and every system whose lines are loaded in service.           *)
(***************************************************************************)
InitDisable ==
    /\ system \in Systems(1..MaxBus, 0..MaxDev, {0}, {0}, {0})
                    \cup Systems(1..MaxBus, {0}, 0..MaxDev, {0}, {0})
                    \cup Systems(1..MaxBus, {0}, {0}, 0..MaxDev, {0})
                    \cup {sys \in Systems(1..MaxBus, {0}, {0}, {0}, 0..MaxLine) :
                              \A k \in DOMAIN sys.Line : sys.Line[k].u = One}
    /\ Fresh

NextDisable == build \/ alter_u

SpecDisable == InitDisable /\ [][NextDisable]_vars

(***************************************************************************)
(* SpecExample: the builder of the three-bus network of two lines in       *)
(* series, bus 1 - bus 2 (x = 0.1) and bus 2 - bus 3 (x = 0.2).            *)
(***************************************************************************)
\* The network, the tap of the first line stored as 0, that of the second
\* line as tap2; no phase shift, both lines in service.
Example(tap2) ==
    [Bus |-> <<1, 2, 3>>, PV |-> <<>>, Slack |-> <<>>, PQ |-> <<>>, Shunt |-> <<>>,
     Line |-> <<[idx |-> 1, bus1 |-> 1, bus2 |-> 2, u |-> One,
                 x |-> <<1, 10>>, tap |-> Zero, phi |-> Zero],
                [idx |-> 2, bus1 |-> 2, bus2 |-> 3, u |-> One,
                 x |-> <<1, 5>>, tap |-> tap2, phi |-> Zero]>>]

InitExample == system \in {Example(Zero), Example(One)} /\ Fresh

NextExample ==
    \/ build \/ build_cg \/ build_cl \/ build_csh \/ build_cft \/ _makeBdc
    \/ alter_u

SpecExample == InitExample /\ [][NextExample]_vars

(***************************************************************************)
(* SpecBuild: one build() on every system of SpecInc and of SpecLine,      *)
(* unresolvable bus references and out-of-service devices included.        *)
(***************************************************************************)
InitBuild == InitInc \/ InitLine

NextBuild == build

SpecBuild == InitBuild /\ [][NextBuild]_vars

(***************************************************************************)
(* SpecStale: build() and the two line steps of the builder of a loaded    *)
(* case whose in-service flags and line buses change between the calls.    *)
(***************************************************************************)
NextStale == build \/ build_cft \/ _makeBdc \/ alter_u \/ alter_line

SpecStale == Init /\ [][NextStale]_vars

(***************************************************************************)
(* SpecIdx: the generator, load and shunt incidence steps on systems whose *)
(* devices were added with identifiers in any order (System.add takes the  *)
(* idx of a device from its caller).                                       *)
(***************************************************************************)
\* The tables of n devices whose idx are distinct values of 1..(n + 1), in
\* any order.
IdxTables(n) ==
    {[k \in 1..n |-> [idx |-> f[k], bus |-> d[k][1], u |-> d[k][2]]] :
        f \in {g \in [1..n -> 1..(n + 1)] : \A i, j \in 1..n : i # j => g[i] # g[j]},
        d \in [1..n -> BusRefs \X UValues]}

\* The system of nb buses whose table tbl holds the devices devs.
SystemOf(nb, tbl, devs) ==
    [[Bus |-> [k \in 1..nb |-> k], PV |-> <<>>, Slack |-> <<>>, PQ |-> <<>>,
      Shunt |-> <<>>, Line |-> <<>>] EXCEPT ![tbl] = devs]

InitIdx ==
    /\ system \in {SystemOf(nb, tbl, devs) :
                       nb \in 1..MaxBus, tbl \in {"PV", "PQ", "Shunt"},
                       devs \in UNION {IdxTables(n) : n \in 1..MaxDev}}
    /\ Fresh

NextIdx == build \/ build_cg \/ build_cl \/ build_csh

SpecIdx == InitIdx /\ [][NextIdx]_vars

(***************************************************************************)
(* SpecSetup: System.setup corrects the line ratings and constructs the    *)
(* matrix processor, which is then built.  The system carries its is_setup *)
(* flag and every line its rate_a.                                         *)
(***************************************************************************)
\* ndarray.max of the finite values of a nonempty sequence.
max(s) ==
    CHOOSE m \in Range(s) : \A e \in Range(s) : e[1] * m[2] <= m[1] * e[2]

\* System.setup, lines 401-403: when the largest rate_a is 0, rate_a.v is
\* assigned 99, which every line then reads; otherwise the ratings are kept.
rate_a_corrected(Line) ==
    IF max([k \in DOMAIN Line |-> Line[k].rate_a]) = Zero
    THEN [k \in DOMAIN Line |-> [Line[k] EXCEPT !.rate_a = Num(99)]]
    ELSE Line

\* The thermal ratings the lines are loaded with.
Ratings == {Zero, Num(50), Num(200)}

\* The tables of n lines from bus 1 to bus 2, in service or not, with any
\* ratings.
RatedLines(n) ==
    {[k \in 1..n |-> [idx |-> k, bus1 |-> 1, bus2 |-> 2, u |-> d[k][1],
                       x |-> <<1, 10>>, tap |-> One, phi |-> Zero, rate_a |-> d[k][2]]] :
        d \in [1..n -> UValues \X Ratings]}

\* System.setup: a second call returns at once; the first corrects the
\* ratings, sets is_setup and constructs the matrix processor.
setup ==
    /\ ~system.is_setup
    /\ system' = [system EXCEPT !.Line = rate_a_corrected(system.Line),
                                !.is_setup = TRUE]
    /\ initialized' = FALSE
    /\ Cg' = None /\ Cl' = None /\ Csh' = None /\ Cft' = None /\ CftT' = None
    /\ Bbus' = None /\ Bf' = None /\ Pbusinj' = None /\ Pfinj' = None /\ PTDF' = None
    /\ raised' = "None"
    /\ edits' = 0

InitSetup ==
    /\ system \in {[Bus |-> <<1, 2>>, PV |-> <<>>, Slack |-> <<>>, PQ |-> <<>>,
                     Shunt |-> <<>>, Line |-> ln, is_setup |-> FALSE] :
                       ln \in UNION {RatedLines(n) : n \in 1..MaxRated}}
    /\ Fresh

NextSetup == setup \/ (system.is_setup /\ build)

SpecSetup == InitSetup /\ [][NextSetup]_vars

(***************************************************************************)
(* SpecMpc: mpc2system fills an empty system from a MATPOWER case (its bus *)
(* types, gen rows and gencost rows), and the matrices are built from it.  *)
(***************************************************************************)
\* The MATPOWER cases: nb buses of which those in sw have type 3, n gen rows
\* <<bus, status>> on these buses, and one gencost row <<type 2, c2, c1, c0>> for each gen
\* row, the rows all different.
MpcsOf(nb) ==
    {[baseMVA |-> 10, nb |-> nb, sw |-> sw, gen |-> gen,
      gencost |-> [k \in DOMAIN gen |-> <<2, k, 10 * k, 100 * k>>]] :
        sw \in SUBSET (1..nb),
        gen \in UNION {[1..n -> (1..nb) \X {0, 1}] : n \in 1..MaxDev}}

Mpcs == UNION {MpcsOf(nb) : nb \in 1..MaxBus}

\* mpc2system, lines 89-150: gen row k becomes the generator of idx k, a Slack
\* device when its bus has type 3, a PV device otherwise.
mpc_gen(mpc) ==
    [k \in DOMAIN mpc.gen |-> [idx |-> k, bus |-> mpc.gen[k][1], u |-> Num(mpc.gen[k][2])]]

mpc_PV(mpc) == SelectIdx(mpc_gen(mpc), LAMBDA i : mpc.gen[i][1] \notin mpc.sw)

mpc_Slack(mpc) == SelectIdx(mpc_gen(mpc), LAMBDA i : mpc.gen[i][1] \in mpc.sw)

\* mpc2system, lines 193-214: the gencost rows are paired, in order, with the
\* idx of the PV devices followed by the idx of the Slack devices.
mpc_GCost(mpc) ==
    LET gen_idx == idx_v(mpc_PV(mpc)) \o idx_v(mpc_Slack(mpc))
        base_mva == mpc.baseMVA
    IN  [k \in 1..Len(gen_idx) |->
            LET data == mpc.gencost[k]
            IN  [gen |-> gen_idx[k], type |-> data[1],
                 c2 |-> data[2] * base_mva * base_mva,
                 c1 |-> data[3] * base_mva,
                 c0 |-> data[4] * base_mva]]

mpc2system ==
    /\ ~system.loaded
    /\ system' = [system EXCEPT !.Bus = [k \in 1..system.mpc.nb |-> k],
                                !.PV = mpc_PV(system.mpc),
                                !.Slack = mpc_Slack(system.mpc),
                                !.GCost = mpc_GCost(system.mpc),
                                !.loaded = TRUE]
    /\ UNCHANGED <<initialized, Cg, Cl, Csh, Cft, CftT, Bbus, Bf, Pbusinj, Pfinj,
                   PTDF, raised, edits>>

InitMpc ==
    /\ system \in {[mpc |-> m, loaded |-> FALSE, Bus |-> <<>>, PV |-> <<>>,
                     Slack |-> <<>>, PQ |-> <<>>, Shunt |-> <<>>, Line |-> <<>>,
                     GCost |-> <<>>] : m \in Mpcs}
    /\ Fresh

NextMpc == mpc2system \/ (system.loaded /\ build)

SpecMpc == InitMpc /\ [][NextMpc]_vars

(***************************************************************************)
(* SpecSteps: build() and the five steps invoked one by one, in any order, *)
(* on a topology that is not edited; in half of the topologies the load    *)
(* references a missing bus, so that build_cl and build() fail.            *)
(***************************************************************************)
\* The case c after the bus of its load was set to a bus that is not in the
\* Bus table.
Dangling(c) == [c EXCEPT !.PQ[1].bus = Len(c.Bus) + 1]

InitSteps == system \in Cases \cup {Dangling(c) : c \in Cases} /\ Fresh

NextSteps == build \/ build_cg \/ build_cl \/ build_csh \/ build_cft \/ _makeBdc

SpecSteps == InitSteps /\ [][NextSteps]_vars

(***************************************************************************)
(* Properties.                                                             *)
(***************************************************************************)
Unset(c) == c.kind = "None"

\* The generator of column j: the generator of row j + 1 of the gen table.
GenOfColumn(sys, j) == CHOOSE g \in Range(sys.PV \o sys.Slack) : g.idx = j + 1

\* C is the nb x n incidence of the n devices dev(0), ..., dev(n - 1): entry
\* (i, j) is 1 when dev(j) is in service and hosted by the bus of position i,
\* and 0 otherwise.
IsIncidence(C, sys, n, dev(_)) ==
    /\ C.kind = "csr"
    /\ C.shape = <<Len(sys.Bus), n>>
    /\ \A i \in 0..(Len(sys.Bus) - 1), j \in 0..(n - 1) :
          toarray(C).a[<<i, j>>] =
              IF ~IsZero(dev(j).u) /\ sys.Bus[i + 1] = dev(j).bus THEN One ELSE Zero

\* C1: once build_cg, build_cl or build_csh (alone or inside build) has stored
\* Cg, Cl or Csh, entry (i, j) of the matrix is 1 if and only if device j is
\* in service and hosted by the bus of position i, and 0 otherwise, so a
\* column has at most one nonzero and an out-of-service device a zero column.
C1_Incidence ==
    /\ ~Unset(Cg) =>
          IsIncidence(Cg, system, Len(system.PV) + Len(system.Slack),
                      LAMBDA j : GenOfColumn(system, j))
    /\ ~Unset(Cl) => IsIncidence(Cl, system, Len(system.PQ), LAMBDA j : system.PQ[j + 1])
    /\ ~Unset(Csh) =>
          IsIncidence(Csh, system, Len(system.Shunt), LAMBDA j : system.Shunt[j + 1])

\* C1 witness: Cg is stored for two buses and two generators, one in service
\* on the second bus and one out of service.
C1_Witness ==
    /\ ~Unset(Cg)
    /\ Cg.shape = <<2, 2>>
    /\ \E j \in 0..1 : toarray(Cg).a[<<1, j>>] = One /\ ~IsZero(GenOfColumn(system, j).u)
    /\ \E j \in 0..1 : IsZero(GenOfColumn(system, j).u)
                         /\ \A i \in 0..1 : toarray(Cg).a[<<i, j>>] = Zero


\* Column j of the nb x nl matrix C is zero everywhere.
ZeroColumn(C, sys, j) ==
    \A i \in 0..(Len(sys.Bus) - 1) : toarray(C).a[<<i, j>>] = Zero

\* Column j of C holds +1 at the row of line j's from-bus, -1 at the row of
\* its to-bus and 0 elsewhere.
SignedColumn(C, sys, j) ==
    \A i \in 0..(Len(sys.Bus) - 1) :
        /\ sys.Bus[i + 1] = sys.Line[j + 1].bus1 => toarray(C).a[<<i, j>>] = One
        /\ sys.Bus[i + 1] = sys.Line[j + 1].bus2 => toarray(C).a[<<i, j>>] = FNeg(One)
        /\ sys.Bus[i + 1] \notin {sys.Line[j + 1].bus1, sys.Line[j + 1].bus2}
              => toarray(C).a[<<i, j>>] = Zero

\* C2 as stated: once build_cft has stored Cft, Cft is nb x nl, the column of
\* every in-service line holds +1 at the from-bus row, -1 at the to-bus row
\* and 0 elsewhere, and the column of every out-of-service line is zero.
C2_Original ==
    ~Unset(Cft) =>
        /\ Cft.shape = <<Len(system.Bus), Len(system.Line)>>
        /\ \A j \in 0..(Len(system.Line) - 1) :
              IF IsZero(system.Line[j + 1].u) THEN ZeroColumn(Cft, system, j)
              ELSE SignedColumn(Cft, system, j)

\* C2 amended: once build_cft has stored Cft, Cft is nb x nl, the column of
\* every in-service line whose from-bus differs from its to-bus holds +1 at
\* the from-bus row, -1 at the to-bus row and 0 elsewhere, and the column of
\* every in-service line whose from-bus is its to-bus and of every
\* out-of-service line is zero.
C2_SignedIncidence ==
    ~Unset(Cft) =>
        /\ Cft.shape = <<Len(system.Bus), Len(system.Line)>>
        /\ \A j \in 0..(Len(system.Line) - 1) :
              IF IsZero(system.Line[j + 1].u)
                  \/ system.Line[j + 1].bus1 = system.Line[j + 1].bus2
              THEN ZeroColumn(Cft, system, j)
              ELSE SignedColumn(Cft, system, j)

\* C2 witness: Cft is stored for an in-service line from the first bus to the
\* second.
C2_Witness ==
    /\ ~Unset(Cft)
    /\ Cft.shape = <<2, 1>>
    /\ ~IsZero(system.Line[1].u)
    /\ system.Line[1].bus1 = system.Bus[1] /\ system.Line[1].bus2 = system.Bus[2]
    /\ toarray(Cft).a[<<0, 0>>] = One /\ toarray(Cft).a[<<1, 0>>] = FNeg(One)

\* b of a line: (in-service flag / x) / tap, the tap taken as 1 when stored as 0.
Susceptance(line) ==
    FDiv(FDiv(line.u, line.x), IF IsZero(line.tap) THEN One ELSE line.tap)

\* Row i of the nl x nb matrix B is zero everywhere.
ZeroRow(B, sys, i) ==
    \A k \in 0..(Len(sys.Bus) - 1) : toarray(B).a[<<i, k>>] = Zero

\* Row i of B holds +b at the column of line i's from-bus, -b at the column of
\* its to-bus and 0 elsewhere.
SignedRow(B, sys, i, b) ==
    \A k \in 0..(Len(sys.Bus) - 1) :
        /\ sys.Bus[k + 1] = sys.Line[i + 1].bus1 => toarray(B).a[<<i, k>>] = b
        /\ sys.Bus[k + 1] = sys.Line[i + 1].bus2 => toarray(B).a[<<i, k>>] = FNeg(b)
        /\ sys.Bus[k + 1] \notin {sys.Line[i + 1].bus1, sys.Line[i + 1].bus2}
              => toarray(B).a[<<i, k>>] = Zero

Incident(sys, l, i) == sys.Bus[i + 1] \in {sys.Line[l + 1].bus1, sys.Line[l + 1].bus2}

\* Entry (l, i) of the signed incidence of every line, in service or not:
\* +1 for the from-bus, -1 for the to-bus (0 when they are the same bus).
Incidence(sys, l, i) ==
    FAdd(IF sys.Bus[i + 1] = sys.Line[l + 1].bus1 THEN One ELSE Zero,
         IF sys.Bus[i + 1] = sys.Line[l + 1].bus2 THEN FNeg(One) ELSE Zero)

RECURSIVE IncidenceTDot(_, _, _, _)
\* The sum over the lines l < n incident to bus i of Incidence(l, i) * col[l].
IncidenceTDot(sys, col, i, n) ==
    IF n = 0 THEN Zero
    ELSE LET l == n - 1
             rest == IncidenceTDot(sys, col, i, l)
         IN  IF Incident(sys, l, i)
             THEN FAdd(rest, FMul(Incidence(sys, l, i), col[l]))
             ELSE rest

RECURSIVE SumOver(_, _, _)
\* The sum of val[l] over the lines l < n that satisfy sel.
SumOver(val, sel(_), n) ==
    IF n = 0 THEN Zero
    ELSE IF sel(n - 1) THEN FAdd(SumOver(val, sel, n - 1), val[n - 1])
         ELSE SumOver(val, sel, n - 1)

C6_Transpose ==
    ~Unset(Cft) =>
        /\ ~Unset(CftT)
        /\ CftT.shape = <<Cft.shape[2], Cft.shape[1]>>
        /\ \A i \in 0..(Cft.shape[1] - 1), j \in 0..(Cft.shape[2] - 1) :
              toarray(CftT).a[<<j, i>>] = toarray(Cft).a[<<i, j>>]

\* C6 witness: after a change of the topology, Cft holds the column of an
\* in-service line between two buses and CftT the matching row.
C6_Witness ==
    /\ edits > 0
    /\ ~Unset(Cft) /\ ~Unset(CftT)
    /\ Cft.shape = <<2, 1>>
    /\ toarray(Cft).a[<<0, 0>>] = One /\ toarray(Cft).a[<<1, 0>>] = FNeg(One)
    /\ toarray(CftT).a[<<0, 0>>] = One /\ toarray(CftT).a[<<0, 1>>] = FNeg(One)

\* C7 as stated: a build() call that a raising step ends leaves the nine
\* containers and the built flag as they were before the call.
C7_Original ==
    [][(build /\ raised' = "KeyError") =>
          UNCHANGED <<Cg, Cl, Csh, Cft, CftT, Bbus, Bf, Pbusinj, Pfinj, initialized>>]_vars

\* The value containers of the builder.
Containers == {Cg, Cl, Csh, Cft, CftT, Bbus, Bf, Pbusinj, Pfinj, PTDF}

\* MParam.v hands its caller a value (None included) instead of signalling
\* an error.
Returns(r) == r.kind \in {"None", "csr", "ndarray"}

\* C8 as stated: on a freshly constructed builder, reading the dense view of
\* any container signals an error and returns no value.
C8_Original ==
    (~initialized /\ \A c \in Containers : Unset(c)) =>
        \A c \in Containers : ~Returns(v(c))

\* C9 as stated: the dense view of a stored sparse matrix with one row and
\* n >= 1 columns is a vector of length n holding that row, the dense view of
\* a stored sparse matrix with more than one row is its 2-D dense array, and
\* the dense view of a stored dense array is that array.
C9_Original ==
    \A c \in Containers :
        /\ (c.kind = "csr" /\ c.shape[1] = 1 /\ c.shape[2] >= 1) =>
              /\ v(c).kind = "ndarray"
              /\ v(c).shape = <<c.shape[2]>>
              /\ \A j \in 0..(c.shape[2] - 1) : v(c).a[<<j>>] = toarray(c).a[<<0, j>>]
        /\ (c.kind = "csr" /\ c.shape[1] > 1) => v(c) = toarray(c)
        /\ c.kind = "ndarray" => v(c) = c

\* C10: the built flag is false on a fresh builder, turns true only in a
\* build() call whose five steps all complete (no exception, all nine
\* containers set), and once true is never false again.
C10_BuiltFlag ==
    /\ ~initialized
    /\ [][/\ initialized => initialized'
          /\ (~initialized /\ initialized') =>
                /\ build
                /\ raised' = "None"
                /\ \A c \in {Cg', Cl', Csh', Cft', CftT', Bbus', Bf', Pbusinj', Pfinj'} :
                      ~Unset(c)]_vars

\* C10 witness: the flag is still true after a later call has raised on a
\* changed topology.
C10_Witness == initialized /\ raised = "KeyError" /\ edits > 0

\* The nine containers hold the values the steps compute from topology sys.
BuiltFrom(sys) ==
    /\ Cg = Cg_v(sys) /\ Cl = Cl_v(sys) /\ Csh = Csh_v(sys)
    /\ Cft = Cft_v(sys) /\ CftT = T(Cft_v(sys))
    /\ \E r \in {Bdc_v(sys)} :
          /\ ~Raised(r)
          /\ Bbus = r.Bbus /\ Bf = r.Bf /\ Pbusinj = r.Pbusinj /\ Pfinj = r.Pfinj

\* C11: build() runs generator incidence, load incidence, shunt incidence,
\* line incidence with its transpose, bus-susceptance step, in this order: a
\* step has run only if every step before it has stored its value, and the
\* steps after the first raising one have not run. When no step raises, the
\* nine containers hold the values of the current topology and the call
\* returns (no exception, the flag set).
C11_BuildOrder ==
    [][(system' = system /\ build) =>
          /\ raised' = "None" =>
                /\ Cg' = Cg_v(system) /\ Cl' = Cl_v(system) /\ Csh' = Csh_v(system)
                /\ Cft' = Cft_v(system) /\ CftT' = T(Cft_v(system))
                /\ Bbus' = Bdc_v(system).Bbus /\ Bf' = Bdc_v(system).Bf
                /\ Pbusinj' = Bdc_v(system).Pbusinj /\ Pfinj' = Bdc_v(system).Pfinj
                /\ initialized'
          /\ ~Raised(Cg_v(system)) => Cg' = Cg_v(system)
          /\ Raised(Cg_v(system)) => UNCHANGED <<Cg, Cl, Csh, Cft, CftT, Bbus, Bf, Pbusinj, Pfinj>>
          /\ Cl' # Cl => Cg' = Cg_v(system) /\ Cl' = Cl_v(system)
          /\ Csh' # Csh => Cl' = Cl_v(system) /\ Csh' = Csh_v(system)
          /\ Cft' # Cft => Csh' = Csh_v(system) /\ Cft' = Cft_v(system)
          /\ Bf' # Bf => Cft' = Cft_v(system) /\ CftT' = T(Cft_v(system))
                           /\ Bf' = Bdc_v(system).Bf]_vars

\* C11 witness: build() has returned on a system of two buses and an
\* in-service line between them: the nine containers hold the values of the
\* topology, Bf the susceptance of the line.
C11_Witness ==
    /\ initialized /\ raised = "None"
    /\ Len(system.Bus) = 2 /\ Len(system.Line) > 0
    /\ ~IsZero(system.Line[1].u) /\ system.Line[1].bus1 # system.Line[1].bus2
    /\ BuiltFrom(system)
    /\ Bf.nz # <<>> /\ Cft.nz # <<>>

\* C12: in a state a returning build() has left (the flag set, the nine
\* containers holding the values build() stores for the current topology), a
\* further build() on the unchanged topology returns and leaves each of the
\* nine containers with the identical value, shape and entries.
C12_Idempotent ==
    [][(initialized /\ BuiltFrom(system) /\ build) =>
          /\ raised' = "None"
          /\ UNCHANGED <<Cg, Cl, Csh, Cft, CftT, Bbus, Bf, Pbusinj, Pfinj>>]_vars

\* C12 witness: the state between two build() calls on the unchanged two-bus
\* case: every container is set and the bus-susceptance matrix has entries.
C12_Witness ==
    /\ initialized /\ raised = "None" /\ edits = 0
    /\ Len(system.Bus) = 2
    /\ BuiltFrom(system)
    /\ Cg.nz # <<>> /\ Bbus.nz # <<>>

\* The values of the nine containers of a freshly constructed builder after
\* one build() on topology sys.
FreshBuild(sys) ==
    [Cg |-> Cg_v(sys), Cl |-> Cl_v(sys), Csh |-> Csh_v(sys), Cft |-> Cft_v(sys),
     CftT |-> T(Cft_v(sys)), Bbus |-> Bdc_v(sys).Bbus, Bf |-> Bdc_v(sys).Bf,
     Pbusinj |-> Bdc_v(sys).Pbusinj, Pfinj |-> Bdc_v(sys).Pfinj]

\* C13: a returning build() leaves the nine containers with the values a fresh
\* builder holds after one build() on the same topology, whatever the builder
\* held before: the values of a build() on a topology of other bus, generator
\* or line counts, or nothing.
C13_HistoryIndependent ==
    [][(build /\ raised' = "None") =>
          \E fresh \in {FreshBuild(system)} :
              /\ Cg' = fresh.Cg /\ Cl' = fresh.Cl /\ Csh' = fresh.Csh
              /\ Cft' = fresh.Cft /\ CftT' = fresh.CftT
              /\ Bbus' = fresh.Bbus /\ Bf' = fresh.Bf
              /\ Pbusinj' = fresh.Pbusinj /\ Pfinj' = fresh.Pfinj]_vars

\* C13 witness: the builder holds the values of a build() on a case of other
\* counts than the current one (the state before the second build()).
C13_Witness ==
    /\ initialized
    /\ Cg.shape # <<Len(system.Bus), Len(system.PV) + Len(system.Slack)>>
    /\ Cft.shape # <<Len(system.Bus), Len(system.Line)>>
    /\ Len(system.Line) > 0 /\ Bf.nz # <<>>

\* The topology sys with the in-service flag of device k of table tbl set to u.
WithU(sys, tbl, k, u) == [sys EXCEPT ![tbl][k].u = u]

\* The column of device k of table tbl in the incidence matrix of its kind.
ColumnOf(sys, tbl, k) == IF tbl \in {"PV", "Slack"} THEN sys[tbl][k].idx - 1 ELSE k - 1

\* new has the shape and the entries of old, except column col, which is zero.
ColumnCleared(old, new, col) ==
    /\ new.kind = "csr" /\ new.shape = old.shape
    /\ \A i \in 0..(old.shape[1] - 1), j \in 0..(old.shape[2] - 1) :
          toarray(new).a[<<i, j>>] = IF j = col THEN Zero ELSE toarray(old).a[<<i, j>>]

\* Entry by entry, new is old without the contribution of line l: row l of Bf
\* and entry l of Pfinj are zero, Bbus and Pbusinj are the sums of the terms
\* of the other lines, taken from the old Bf and Pfinj.
LineCleared(sys, l, oBf, oPfinj, nBbus, nBf, nPbusinj, nPfinj) ==
    LET nb == Len(sys.Bus)
        nl == Len(sys.Line)
    IN  /\ nBf.shape = <<nl, nb>> /\ nBbus.shape = <<nb, nb>>
        /\ nPfinj.shape = <<nl>> /\ nPbusinj.shape = <<nb>>
        /\ \A m \in 0..(nl - 1), k \in 0..(nb - 1) :
              toarray(nBf).a[<<m, k>>] = IF m = l THEN Zero ELSE toarray(oBf).a[<<m, k>>]
        /\ \A m \in 0..(nl - 1) :
              nPfinj.a[<<m>>] = IF m = l THEN Zero ELSE oPfinj.a[<<m>>]
        /\ \A i, k \in 0..(nb - 1) :
              toarray(nBbus).a[<<i, k>>] =
                  IncidenceTDot(sys,
                                [m \in 0..(nl - 1) |->
                                    IF m = l THEN Zero ELSE toarray(oBf).a[<<m, k>>]],
                                i, nl)
        /\ \A i \in 0..(nb - 1) :
              nPbusinj.a[<<i>>] =
                  IncidenceTDot(sys,
                                [m \in 0..(nl - 1) |->
                                    IF m = l THEN Zero ELSE oPfinj.a[<<m>>]],
                                i, nl)

\* C14 as stated: a build() that returns, run while the containers hold the
\* values of the same topology with device d in service and d is now out of
\* service, clears the column of d in the incidence matrix of its kind and,
\* for a line, its Bf row, its Pfinj entry and its terms in Bbus and Pbusinj,
\* and leaves every other entry as it was.
C14_Original ==
    [][(build /\ raised' = "None") =>
          \A tbl \in Tables : \A k \in DOMAIN system[tbl] :
              (IsZero(system[tbl][k].u) /\ BuiltFrom(WithU(system, tbl, k, One))) =>
                  \E col \in {ColumnOf(system, tbl, k)} :
                      /\ tbl \in {"PV", "Slack"} =>
                            /\ ColumnCleared(Cg, Cg', col)
                            /\ UNCHANGED <<Cl, Csh, Cft, CftT, Bbus, Bf, Pbusinj, Pfinj>>
                      /\ tbl = "PQ" =>
                            /\ ColumnCleared(Cl, Cl', col)
                            /\ UNCHANGED <<Cg, Csh, Cft, CftT, Bbus, Bf, Pbusinj, Pfinj>>
                      /\ tbl = "Shunt" =>
                            /\ ColumnCleared(Csh, Csh', col)
                            /\ UNCHANGED <<Cg, Cl, Cft, CftT, Bbus, Bf, Pbusinj, Pfinj>>
                      /\ tbl = "Line" =>
                            /\ ColumnCleared(Cft, Cft', col)
                            /\ LineCleared(system, col, Bf, Pfinj, Bbus', Bf', Pbusinj', Pfinj')
                            /\ UNCHANGED <<Cg, Cl, Csh>>]_vars

\* The statement of C14 restricted to the generators, loads and shunts and to
\* the lines of nonzero reactance, for which it holds (the susceptance stored
\* for an out-of-service line of zero reactance is 0 / 0, not zero).
C14_Disable ==
    [][(build /\ raised' = "None") =>
          \A tbl \in Tables : \A k \in DOMAIN system[tbl] :
              (/\ IsZero(system[tbl][k].u)
               /\ tbl = "Line" => ~IsZero(system[tbl][k].x)
               /\ BuiltFrom(WithU(system, tbl, k, One))) =>
                  \E col \in {ColumnOf(system, tbl, k)} :
                      /\ tbl \in {"PV", "Slack"} =>
                            /\ ColumnCleared(Cg, Cg', col)
                            /\ UNCHANGED <<Cl, Csh, Cft, CftT, Bbus, Bf, Pbusinj, Pfinj>>
                      /\ tbl = "PQ" =>
                            /\ ColumnCleared(Cl, Cl', col)
                            /\ UNCHANGED <<Cg, Csh, Cft, CftT, Bbus, Bf, Pbusinj, Pfinj>>
                      /\ tbl = "Shunt" =>
                            /\ ColumnCleared(Csh, Csh', col)
                            /\ UNCHANGED <<Cg, Cl, Cft, CftT, Bbus, Bf, Pbusinj, Pfinj>>
                      /\ tbl = "Line" =>
                            /\ ColumnCleared(Cft, Cft', col)
                            /\ LineCleared(system, col, Bf, Pfinj, Bbus', Bf', Pbusinj', Pfinj')
                            /\ UNCHANGED <<Cg, Cl, Csh>>]_vars

\* A state C14_Disable speaks about: the builder was rebuilt after a transformer (tap 2, phase
\* shift 1) between the two buses was taken out of service: its Bf row, its
\* Pfinj entry and Bbus are zero.
C14_Witness ==
    /\ initialized /\ raised = "None" /\ edits > 0
    /\ Len(system.Bus) = 2 /\ Len(system.Line) = 1
    /\ IsZero(system.Line[1].u) /\ system.Line[1].tap = Num(2)
    /\ system.Line[1].bus1 # system.Line[1].bus2
    /\ BuiltFrom(system)
    /\ ZeroRow(Bf, system, 0) /\ Pfinj.a[<<0>>] = Zero
    /\ \A i, k \in 0..1 : toarray(Bbus).a[<<i, k>>] = Zero

\* The topology sys with the stored tap ratio of line k set to tap.
WithTap(sys, k, tap) == [sys EXCEPT !.Line[k].tap = tap]

\* C15: once _makeBdc has stored its results, they are the results of the
\* step on the topology in which a stored tap ratio 0 is replaced by 1, or a
\* stored 1 by 0, all else equal; and for a line with a nonzero stored tap
\* between two different buses, the Bf entry at the from-bus is (u / x) / tap.
C15_TapDefault ==
    ~Unset(Bf) =>
        \A k \in DOMAIN system.Line :
            LET line == system.Line[k]
            IN  /\ line.tap \in {Zero, One} =>
                      \E r \in {Bdc_v(WithTap(system, k, IF line.tap = Zero THEN One ELSE Zero))} :
                          /\ ~Raised(r)
                          /\ r.Bf = Bf /\ r.Bbus = Bbus
                          /\ r.Pfinj = Pfinj /\ r.Pbusinj = Pbusinj
                /\ (~IsZero(line.tap) /\ line.bus1 # line.bus2) =>
                      toarray(Bf).a[<<k - 1, idx2uid(system.Bus, line.bus1)>>] =
                          FDiv(FDiv(line.u, line.x), line.tap)

\* C15 witness: the results are stored for an in-service line with tap
\* stored as 0 between two different buses (susceptance 10), or for an
\* in-service transformer with tap 2 (susceptance 5 / 2).
C15_Witness ==
    /\ ~Unset(Bf)
    /\ \E k \in DOMAIN system.Line :
          LET line == system.Line[k]
          IN  /\ ~IsZero(line.u) /\ line.bus1 # line.bus2
              /\ \/ line.tap = Zero /\ line.x = <<1, 10>>
                       /\ toarray(Bf).a[<<k - 1, idx2uid(system.Bus, line.bus1)>>] = Num(10)
                 \/ line.tap = Num(2)
                       /\ toarray(Bf).a[<<k - 1, idx2uid(system.Bus, line.bus1)>>] = <<5, 2>>

\* The dense array A has the integer entries rows[i][j].
DenseIs(A, rows) ==
    /\ A.kind = "ndarray"
    /\ A.shape = <<Len(rows), Len(rows[1])>>
    /\ \A i \in DOMAIN rows, j \in DOMAIN rows[1] : A.a[<<i - 1, j - 1>>] = Num(rows[i][j])

\* The dense vector x has the integer entries row[i].
VectorIs(x, row) ==
    /\ x.kind = "ndarray"
    /\ x.shape = <<Len(row)>>
    /\ \A i \in DOMAIN row : x.a[<<i - 1>>] = Num(row[i])

\* C16: for the three-bus network with in-service line 0 from bus 1 to bus 2
\* (1 / x = 10, tap stored 0, phi 0) and in-service line 1 from bus 2 to bus 3
\* (1 / x = 5, phi 0), a returning build() leaves Bf = [[10, -10, 0],
\* [0, 5, -5]], Bbus = [[10, -10, 0], [-10, 15, -5], [0, -5, 5]],
\* Pfinj = [0, 0] and Pbusinj = [0, 0, 0].
C16_WorkedExample ==
    [][(build /\ raised' = "None" /\ system \in {Example(Zero), Example(One)}) =>
          /\ DenseIs(toarray(Bf'), <<<<10, -10, 0>>, <<0, 5, -5>>>>)
          /\ DenseIs(toarray(Bbus'), <<<<10, -10, 0>>, <<-10, 15, -5>>, <<0, -5, 5>>>>)
          /\ VectorIs(Pfinj', <<0, 0>>)
          /\ VectorIs(Pbusinj', <<0, 0, 0>>)]_vars

\* C16 witness: build() has returned on the three-bus network.
C16_Witness ==
    /\ initialized /\ raised = "None"
    /\ system \in {Example(Zero), Example(One)}
    /\ BuiltFrom(system)
    /\ toarray(Bbus).a[<<1, 1>>] = Num(15)

\* The sum of the entries of column j of the matrix C.
ColumnSum(C, j) ==
    SumOver([i \in 0..(C.shape[1] - 1) |-> toarray(C).a[<<i, j>>]],
            LAMBDA i : TRUE, C.shape[1])

\* The number of entries of column j of C that equal val.
ColumnCount(C, j, val) ==
    Cardinality({i \in 0..(C.shape[1] - 1) : toarray(C).a[<<i, j>>] = val})

\* C17 as stated: once build_cft has stored Cft, the entries of every line
\* column sum to 0: the column of an in-service line holds one +1, one -1 and
\* zeros, the column of an out-of-service line zeros only.
C17_Original ==
    ~Unset(Cft) =>
        \A j \in 0..(Len(system.Line) - 1) :
            /\ ColumnSum(Cft, j) = Zero
            /\ IF IsZero(system.Line[j + 1].u)
               THEN ColumnCount(Cft, j, Zero) = Len(system.Bus)
               ELSE /\ ColumnCount(Cft, j, One) = 1
                    /\ ColumnCount(Cft, j, FNeg(One)) = 1
                    /\ ColumnCount(Cft, j, Zero) = Len(system.Bus) - 2

\* C17 amended: once build_cft has stored Cft, the entries of every line
\* column sum to 0: the column of an in-service line between two different
\* buses holds one +1, one -1 and zeros; the column of an in-service line
\* whose from-bus is its to-bus and of an out-of-service line zeros only.
C17_ColumnSum ==
    ~Unset(Cft) =>
        \A j \in 0..(Len(system.Line) - 1) :
            /\ ColumnSum(Cft, j) = Zero
            /\ IF IsZero(system.Line[j + 1].u)
                  \/ system.Line[j + 1].bus1 = system.Line[j + 1].bus2
               THEN ColumnCount(Cft, j, Zero) = Len(system.Bus)
               ELSE /\ ColumnCount(Cft, j, One) = 1
                    /\ ColumnCount(Cft, j, FNeg(One)) = 1
                    /\ ColumnCount(Cft, j, Zero) = Len(system.Bus) - 2

\* C17 witness: Cft is stored for an in-service line from the second bus to
\* the first: its column holds -1 and +1.
C17_Witness ==
    /\ ~Unset(Cft)
    /\ Cft.shape = <<2, 1>>
    /\ ~IsZero(system.Line[1].u)
    /\ system.Line[1].bus1 = system.Bus[2] /\ system.Line[1].bus2 = system.Bus[1]
    /\ toarray(Cft).a[<<0, 0>>] = FNeg(One) /\ toarray(Cft).a[<<1, 0>>] = One
    /\ ColumnSum(Cft, 0) = Zero

\* C18: Bbus, Bf, Pbusinj and Pfinj are set together, and every step of the
\* builder (the bus-susceptance step alone or as the last step of build(),
\* returning or raising, and every other step) either leaves all four as they
\* were or stores in all four the values the bus-susceptance step computes
\* from the current topology.
C18_GroupCommit ==
    /\ \A c \in {Bf, Pbusinj, Pfinj} : Unset(c) <=> Unset(Bbus)
    /\ [][\/ UNCHANGED <<Bbus, Bf, Pbusinj, Pfinj>>
          \/ \E r \in {Bdc_v(system)} :
                /\ ~Raised(r)
                /\ raised' = "None"
                /\ Bbus' = r.Bbus /\ Bf' = r.Bf
                /\ Pbusinj' = r.Pbusinj /\ Pfinj' = r.Pfinj]_vars

\* C18 witness: the step has raised on a line whose bus is unknown, and the
\* four containers still hold the values of the earlier topology.
C18_Witness ==
    /\ raised = "KeyError"
    /\ Raised(Bdc_v(system))
    /\ \A c \in {Bbus, Bf, Pbusinj, Pfinj} : ~Unset(c)
    /\ Bf.nz # <<>>

\* The stored line incidence is not the one of the current topology: it is
\* unset, or was stored for an earlier topology.
CftNotCurrent == Unset(Cft) \/ Cft # Cft_v(system)

Unresolved(sys, tbl) == \E k \in DOMAIN tbl : ~HasIdx(sys.Bus, tbl[k].bus)

\* Some line, in service or not, has a from-bus or a to-bus that is not in the
\* Bus table.
UnresolvedLine(sys) ==
    \E k \in DOMAIN sys.Line :
        ~HasIdx(sys.Bus, sys.Line[k].bus1) \/ ~HasIdx(sys.Bus, sys.Line[k].bus2)

\* C20 as stated: whenever a device, in service or not, has a bus reference
\* that is not a known bus, the build step of its kind raises and leaves the
\* containers it writes as they were.
C20_Original ==
    [][/\ (build_cg /\ Unresolved(system, system.PV \o system.Slack)) =>
             raised' = "KeyError" /\ UNCHANGED Cg
       /\ (build_cl /\ Unresolved(system, system.PQ)) =>
             raised' = "KeyError" /\ UNCHANGED Cl
       /\ (build_csh /\ Unresolved(system, system.Shunt)) =>
             raised' = "KeyError" /\ UNCHANGED Csh
       /\ (build_cft /\ UnresolvedLine(system)) =>
             raised' = "KeyError" /\ UNCHANGED <<Cft, CftT>>
       /\ (_makeBdc /\ UnresolvedLine(system)) =>
             raised' = "KeyError" /\ UNCHANGED <<Bbus, Bf, Pbusinj, Pfinj>>]_vars

\* The generator whose idx has j smaller generator idx: the generator of rank
\* j in the ascending order of the identifiers.
RankedGen(sys, j) ==
    CHOOSE g \in Range(sys.PV \o sys.Slack) :
        Cardinality({h \in Range(sys.PV \o sys.Slack) : h.idx < g.idx}) = j

\* C21 as stated: once stored, Cg, Cl and Csh hold in column j the in-service
\* flag and the hosting bus of the device at position j of the device table
\* (for Cg the generators in the order of their tables), whatever the values
\* of the identifiers.
C21_Original ==
    /\ ~Unset(Cg) =>
          IsIncidence(Cg, system, Len(system.PV) + Len(system.Slack),
                      LAMBDA j : (system.PV \o system.Slack)[j + 1])
    /\ ~Unset(Cl) => IsIncidence(Cl, system, Len(system.PQ), LAMBDA j : system.PQ[j + 1])
    /\ ~Unset(Csh) =>
          IsIncidence(Csh, system, Len(system.Shunt), LAMBDA j : system.Shunt[j + 1])

\* C21 amended: once stored, Cl and Csh hold in column j the in-service flag
\* and the hosting bus of the device at position j of the load or shunt table,
\* whatever the values of the identifiers; Cg holds in column j those of the
\* generator of rank j in the ascending order of the generator identifiers.
C21_ColumnOrder ==
    /\ ~Unset(Cg) =>
          IsIncidence(Cg, system, Len(system.PV) + Len(system.Slack),
                      LAMBDA j : RankedGen(system, j))
    /\ ~Unset(Cl) => IsIncidence(Cl, system, Len(system.PQ), LAMBDA j : system.PQ[j + 1])
    /\ ~Unset(Csh) =>
          IsIncidence(Csh, system, Len(system.Shunt), LAMBDA j : system.Shunt[j + 1])

\* C21 witness: Cg is stored for two generators added in descending order of
\* their identifiers, the first in service on the first bus, the second in
\* service on the second bus: column 0 holds the second generator.
C21_Witness ==
    /\ ~Unset(Cg)
    /\ Cg.shape = <<2, 2>>
    /\ Len(system.PV) = 2
    /\ system.PV[1].idx > system.PV[2].idx
    /\ ~IsZero(system.PV[1].u) /\ ~IsZero(system.PV[2].u)
    /\ system.PV[1].bus = 1 /\ system.PV[2].bus = 2
    /\ toarray(Cg).a[<<1, 0>>] = One /\ toarray(Cg).a[<<0, 1>>] = One

\* The values a stored container holds.
Entries(c) ==
    IF c.kind = "csr" THEN Range(c.nz)
    ELSE IF c.kind = "ndarray" THEN Range(c.a)
    ELSE {}

\* C22: when a line of the system, in service or not, has series reactance
\* 0, the bus-susceptance step ends in an error and stores nothing: Bf, Bbus,
\* Pfinj and Pbusinj hold no infinite or undefined value, and build() on such
\* a system never completes.
C22_Original ==
    (\E k \in DOMAIN system.Line : IsZero(system.Line[k].x)) =>
        /\ \A c \in {Bf, Bbus, Pfinj, Pbusinj} : \A e \in Entries(c) : IsFinite(e)
        /\ ~initialized

\* Row l of the dense view of a matrix with nb columns.
RowOf(A, l, nb) == [k \in 0..(nb - 1) |-> toarray(A).a[<<l, k>>]]

\* Line l (0-based) of the line table.
LineAt(sys, l) == sys.Line[l + 1]

\* C23 as stated: with Cft, CftT and the four bus containers stored, row l of
\* the incidence the bus-susceptance step builds for itself equals row l of
\* the stored CftT exactly when line l is in service; when every line is in
\* service Bbus = Cft . Bf and Pbusinj = Cft . Pfinj with the stored Cft.
C23_Original ==
    (~Unset(Cft) /\ ~Unset(CftT) /\ ~Unset(Bbus)) =>
        /\ \A l \in 0..(Len(system.Line) - 1) :
              (RowOf(Bdc_Cft_of(system), l, Len(system.Bus)) =
                   RowOf(CftT, l, Len(system.Bus)))
                  <=> ~IsZero(LineAt(system, l).u)
        /\ (\A l \in 0..(Len(system.Line) - 1) : ~IsZero(LineAt(system, l).u)) =>
              /\ toarray(Bbus) = toarray(matmul(Cft, Bf))
              /\ Pbusinj = matvec(Cft, Pfinj)

\* C23 amended: with Cft, CftT and the four bus containers stored, row l of
\* the incidence the bus-susceptance step builds for itself differs from row l
\* of the stored CftT exactly when line l is out of service and joins two
\* different buses; when every line is in service the two are equal element
\* for element and Bbus = Cft . Bf and Pbusinj = Cft . Pfinj with the stored
\* Cft.
C23_LocalIncidence ==
    (~Unset(Cft) /\ ~Unset(CftT) /\ ~Unset(Bbus)) =>
        /\ \A l \in 0..(Len(system.Line) - 1) :
              (RowOf(Bdc_Cft_of(system), l, Len(system.Bus)) #
                   RowOf(CftT, l, Len(system.Bus)))
                  <=> (/\ IsZero(LineAt(system, l).u)
                       /\ LineAt(system, l).bus1 # LineAt(system, l).bus2)
        /\ (\A l \in 0..(Len(system.Line) - 1) : ~IsZero(LineAt(system, l).u)) =>
              /\ toarray(Bdc_Cft_of(system)) = toarray(CftT)
              /\ toarray(Bbus) = toarray(matmul(Cft, Bf))
              /\ Pbusinj = matvec(Cft, Pfinj)

\* C23 witness: everything is stored for an in-service line from the first
\* bus to the second: the row of the local incidence and the row of the
\* stored CftT are both (1, -1).
C23_Witness ==
    /\ ~Unset(Cft) /\ ~Unset(CftT) /\ ~Unset(Bbus)
    /\ Len(system.Line) = 1 /\ Len(system.Bus) = 2
    /\ system.Line[1].bus1 = 1 /\ system.Line[1].bus2 = 2
    /\ ~IsZero(system.Line[1].u)
    /\ RowOf(CftT, 0, 2) = [k \in 0..1 |-> IF k = 0 THEN One ELSE Num(-1)]
    /\ RowOf(Bdc_Cft_of(system), 0, 2) = RowOf(CftT, 0, 2)

\* C24: System.setup leaves no line with rate_a equal to 0, and every line
\* whose rate_a was not 0 keeps its rating.
C24_Original ==
    [][(~system.is_setup /\ system'.is_setup) =>
          \A k \in DOMAIN system.Line :
              /\ system'.Line[k].rate_a # Zero
              /\ system.Line[k].rate_a # Zero =>
                    system'.Line[k].rate_a = system.Line[k].rate_a]_vars

\* Floating-point equality: a nan equals nothing, itself included.
FEq(a, b) == a # NaN /\ b # NaN /\ a = b

\* C25: once stored, Bbus is symmetric, Bbus[i][k] = Bbus[k][i] for all buses
\* i and k, for every topology.
C25_Original ==
    ~Unset(Bbus) =>
        \A i, k \in 0..(Len(system.Bus) - 1) :
            FEq(toarray(Bbus).a[<<i, k>>], toarray(Bbus).a[<<k, i>>])

\* C26: after mpc2system, for every gen row k the generator created from it
\* (the one of idx k) has a cost record, and that record holds the
\* coefficients of gencost row k: c2 * baseMVA^2, c1 * baseMVA and
\* c0 * baseMVA.
C26_Original ==
    system.loaded =>
        \A k \in DOMAIN system.mpc.gen :
            \E j \in DOMAIN system.GCost :
                /\ system.GCost[j].gen = k
                /\ system.GCost[j].c2 =
                      system.mpc.gencost[k][2] * system.mpc.baseMVA * system.mpc.baseMVA
                /\ system.GCost[j].c1 = system.mpc.gencost[k][3] * system.mpc.baseMVA
                /\ system.GCost[j].c0 = system.mpc.gencost[k][4] * system.mpc.baseMVA

\* C27: PTDF is unset from construction on and no step sets it; a step that
\* is not a whole build() leaves the topology and the built flag alone and
\* changes the containers of one step only: Cg, or Cl, or Csh, or Cft and
\* CftT, or Bbus, Bf, Pbusinj and Pfinj.
C27_Frame ==
    /\ Unset(PTDF)
    /\ [][/\ PTDF' = PTDF
          /\ system' = system
          /\ \/ /\ initialized' = initialized
                /\ \/ UNCHANGED <<Cl, Csh, Cft, CftT, Bbus, Bf, Pbusinj, Pfinj>>
                   \/ UNCHANGED <<Cg, Csh, Cft, CftT, Bbus, Bf, Pbusinj, Pfinj>>
                   \/ UNCHANGED <<Cg, Cl, Cft, CftT, Bbus, Bf, Pbusinj, Pfinj>>
                   \/ UNCHANGED <<Cg, Cl, Csh, Bbus, Bf, Pbusinj, Pfinj>>
                   \/ UNCHANGED <<Cg, Cl, Csh, Cft, CftT>>
             \/ build]_vars

\* C27 witness: on a fresh builder build_cl alone has run for a system with
\* an in-service load: Cl holds an entry, every other container is unset and
\* the flag is false.
C27_Witness ==
    /\ ~Unset(Cl) /\ Cl.nz # <<>>
    /\ \A c \in {Cg, Csh, Cft, CftT, Bbus, Bf, Pbusinj, Pfinj, PTDF} : Unset(c)
    /\ ~initialized

\* C28: in every reachable state the built flag implies that none of Cg, Cl,
\* Csh, Cft, CftT, Bbus, Bf, Pbusinj and Pfinj is unset, and no step, failing
\* or not, returns a container that holds a value to the unset state.
C28_FlagImpliesSet ==
    /\ [](initialized =>
            \A c \in {Cg, Cl, Csh, Cft, CftT, Bbus, Bf, Pbusinj, Pfinj} : ~Unset(c))
    /\ [][/\ ~Unset(Cg) => ~Unset(Cg')
          /\ ~Unset(Cl) => ~Unset(Cl')
          /\ ~Unset(Csh) => ~Unset(Csh')
          /\ ~Unset(Cft) => ~Unset(Cft')
          /\ ~Unset(CftT) => ~Unset(CftT')
          /\ ~Unset(Bbus) => ~Unset(Bbus')
          /\ ~Unset(Bf) => ~Unset(Bf')
          /\ ~Unset(Pbusinj) => ~Unset(Pbusinj')
          /\ ~Unset(Pfinj) => ~Unset(Pfinj')]_vars

\* C28 witness: the flag is true, all nine containers hold a value and the
\* last call failed: a step or a build() raised on a builder that was built.
C28_Witness ==
    /\ initialized
    /\ raised = "KeyError"
    /\ \A c \in {Cg, Cl, Csh, Cft, CftT, Bbus, Bf, Pbusinj, Pfinj} : ~Unset(c)

====
